---- MODULE Spec2Model ----
(***************************************************************************)
(* Model of the server-maintainer control loop (src/src/main.rs,           *)
(* main_thread), its two producers (src/src/discord_commands.rs,           *)
(* src/src/server_log.rs) and the supervised processes.                    *)
(*                                                                         *)
(* One loop iteration of main_thread is two atomic steps: the poll block   *)
(* (Poll, lines 146-188) and the select! (one Handle... action, lines      *)
(* 191-539).  The loop blocks inside select!, so processes may exit and    *)
(* producers may enqueue between the two steps.                            *)
(***************************************************************************)
EXTENDS Integers, Sequences, FiniteSets, TLC

VARIABLES
    pc,                   \* "poll" | "select" | "exited": position of main_thread
    server_status,        \* the ServerStatus value
    server_alive,         \* server processes spawned and not yet exited
    rcon_alive,           \* the held stop/kill mcrcon child has not exited
    from_discord,         \* command channel contents (FIFO)
    discord_alive,        \* the command channel's producer thread is running
    from_server_log,      \* log channel contents (FIFO)
    log_threads,          \* server pids whose server_log_thread is running
    clock,                \* Local::now(), in seconds
    last_error_reported,
    last_chat_msg,
    chat_msg_cache,
    died_count,           \* "died" notifications since the latest server spawn
    error_notes,          \* when the latest two ServerError notifications were sent
    polled,               \* the latest poll block saw the held server running
    last,                 \* what the latest step did, if a step of main_thread
    line,                 \* the output line a server_log_thread is given
    scanned,              \* scan_line of that line, once the thread has read it
    relay_log,            \* the entries given to send_or_queue! and those sent
    discord_threads       \* discord_thread threads spawned and not yet returned

vars == <<pc, server_status, server_alive, rcon_alive, from_discord,
          discord_alive, from_server_log, log_threads, clock,
          last_error_reported, last_chat_msg, chat_msg_cache, died_count,
          error_notes, polled, last, line, scanned, relay_log,
          discord_threads>>

----------------------------------------------------------------------------
(* Bounds of the model *)
MaxProcs == 2          \* server process ids available at one time
MaxInFlight == 1       \* undelivered events over both channels
MaxTime == 3           \* the clock stops advancing here
MaxCache == 3          \* chat entries buffered before submissions stop
MaxSubmitted == 4      \* entries passed to send_or_queue! in a recorded behaviour
FlushTick == 3         \* seconds between two looks at the clock, past the timeout
MaxRelayTime == 6      \* the clock stops here in a recorded behaviour
MaxErrorTime == 30     \* where the clock stops when it advances by ErrorTick
ErrorTick == 5         \* seconds between two readings of the coarse clock

(* Program constants *)
CHANNEL_CAP == 5       \* bounded(5)
ERROR_TIMEOUT == 15
MESSAGE_TIMEOUT == 2

Pids == 1..MaxProcs
None == 0
(* The Child of a stop/kill mcrcon: at most one is held, and one that is   *)
(* dropped is never looked at again.                                       *)
RconChild == 1

----------------------------------------------------------------------------
(* ServerStatus *)
Unknown == [tag |-> "Unknown", server |-> None, rcon |-> None, start_time |-> 0]
Offline == [tag |-> "Offline", server |-> None, rcon |-> None, start_time |-> 0]
Starting(server, start_time) ==
    [tag |-> "Starting", server |-> server, rcon |-> None, start_time |-> start_time]
Running(server) ==
    [tag |-> "Running", server |-> server, rcon |-> None, start_time |-> 0]
Stopping(server, rcon) ==
    [tag |-> "Stopping", server |-> server, rcon |-> rcon, start_time |-> 0]

(* FromDiscord; the String of OpCommandEvent is "" or a user name *)
OpUsers == {"", "user"}
Cmd(c) == [cmd |-> c, user |-> ""]
OpCommandEvent(user) == [cmd |-> "OpCommandEvent", user |-> user]
OperatorCommands ==
    {Cmd(c) : c \in {"StartServerEvent", "StopServerEvent", "KillServerEvent",
                     "ShutdownServerEvent", "CancelShutdownEvent", "BackupEvent",
                     "StatusQueryEvent", "HelpEvent", "UnknownCommand", "NoCommand"}}
    \cup {OpCommandEvent(u) : u \in OpUsers}

(* FromServerLog *)
Names == {"user"}
Texts == {"hi"}
LogEv(t) == [type |-> t, name |-> "", message |-> ""]
LogEvents ==
    {LogEv(t) : t \in {"ServerStarted", "ServerStopping", "ServerError", "LagSpike",
                       "BackupStarted", "BackupFinished"}}
    \cup {[type |-> t, name |-> n, message |-> ""] :
              t \in {"UserLogin", "UserLogout"}, n \in Names}
    \cup {[type |-> "ChatMessage", name |-> n, message |-> m] : n \in Names, m \in Texts}

(* An outbound message of send_discord; the model writes the texts without *)
(* apostrophes and backquotes.                                             *)
Note(text) == [text |-> text, secs |-> 0, entries |-> <<>>]

DiedNote == Note("Server died for some reason, mc!start to restart")

ErrorNote == Note("Server encountered an exception")

(* A spawn call and its outcome *)
SpawnCall(kind, ok) == [kind |-> kind, ok |-> ok]

NoEvent == [cmd |-> "", user |-> ""]

(* The observation of a step of main_thread: the event handled, the state  *)
(* it was handled in, and what the step did.                               *)
Obs(step, ev, sent, spawns, kills) ==
    [step |-> step, ev |-> ev, pre |-> server_status,
     srv_alive |-> server_status.server \in server_alive,
     rcon_alive |-> rcon_alive, polled |-> polled,
     last_error_reported |-> last_error_reported,
     last_chat_msg |-> last_chat_msg, chat_msg_cache |-> chat_msg_cache,
     sent |-> sent, spawns |-> spawns, kills |-> kills]

(* A step of the environment *)
NoObs ==
    [step |-> "env", ev |-> NoEvent, pre |-> Unknown, srv_alive |-> FALSE,
     rcon_alive |-> FALSE, polled |-> FALSE,
     last_error_reported |-> 0, last_chat_msg |-> 0, chat_msg_cache |-> <<>>,
     sent |-> <<>>, spawns |-> <<>>, kills |-> {}]

----------------------------------------------------------------------------
(* No line has been given to a log thread, and none has been scanned. *)
NoLine == <<>>
Err == [ok |-> FALSE]
NotScanned == [read |-> FALSE, result |-> Err]

(* The record of the chat relay: every entry passed to send_or_queue!, in  *)
(* the order of the calls, and the entries of the messages sent, in the    *)
(* order sent.  It is kept only in the behaviours that start with it on.   *)
RelayLog(on, submitted, relayed) ==
    [on |-> on, submitted |-> submitted, relayed |-> relayed]
NotLogged == RelayLog(FALSE, <<>>, <<>>)

InitLoop ==
    /\ pc = "poll"
    /\ server_status = Unknown
    /\ server_alive = {}
    /\ rcon_alive = FALSE
    /\ from_discord = <<>>
    /\ discord_alive = TRUE
    /\ from_server_log = <<>>
    /\ log_threads = {}
    /\ clock = 0
    /\ last_error_reported = 0
    /\ last_chat_msg = 0
    /\ chat_msg_cache = <<>>
    /\ died_count = 0
    /\ error_notes = <<>>
    /\ polled = FALSE
    /\ last = NoObs
    /\ discord_threads = 1
    /\ scanned = NotScanned

Init == InitLoop /\ line = NoLine /\ relay_log = NotLogged

----------------------------------------------------------------------------
(* Server process ids: a spawn takes the least id that no live server, no  *)
(* held handle and no running log thread still uses.                       *)
FreePids ==
    Pids \ (server_alive \cup log_threads \cup {server_status.server})

FreshPid == CHOOSE p \in FreePids : \A q \in FreePids : p <= q

InFlight == Len(from_discord) + Len(from_server_log)

(* What a step of main_thread does: the next ServerStatus, the messages    *)
(* passed to send_discord, the spawn calls made, the handles killed, the   *)
(* processes created, and whether main_thread returned Err.                *)
Effect(status, sent, spawns, kills, new_server, new_rcon, exit) ==
    [status |-> status, sent |-> sent, spawns |-> spawns, kills |-> kills,
     new_server |-> new_server, new_rcon |-> new_rcon, exit |-> exit]

(* send_discord(text); continue *)
Reply(text) == Effect(server_status, <<Note(text)>>, <<>>, {}, None, None, FALSE)

(* `?` on a failed spawn: main_thread returns the error *)
SpawnFailed(kind, sent, kills) ==
    Effect(server_status, sent, <<SpawnCall(kind, FALSE)>>, kills, None, None, TRUE)

----------------------------------------------------------------------------
(* Mutants of the poll block: the Running arm missing; the Running arm     *)
(* notifying without leaving Running; the Stopping arm waiting for mcrcon. *)
PollEffect_SkipRunning ==
    LET s == server_status
        server_stopped == s.server \notin server_alive
        rcon_stopped == IF s.rcon # None THEN ~rcon_alive ELSE TRUE
    IN  IF s.tag = "Stopping" /\ s.server # None /\ server_stopped
        THEN IF ~rcon_stopped
             THEN Effect(Offline, <<Note("Server stopped before time.")>>,
                         <<>>, {s.rcon}, None, None, FALSE)
             ELSE Effect(Offline, <<Note("Server stopped.")>>,
                         <<>>, {}, None, None, FALSE)
        ELSE Effect(s, <<>>, <<>>, {}, None, None, FALSE)

PollEffect_StayRunning ==
    LET s == server_status
        server_stopped == s.server \notin server_alive
        rcon_stopped == IF s.rcon # None THEN ~rcon_alive ELSE TRUE
    IN  IF s.tag = "Stopping" /\ s.server # None /\ server_stopped
        THEN IF ~rcon_stopped
             THEN Effect(Offline, <<Note("Server stopped before time.")>>,
                         <<>>, {s.rcon}, None, None, FALSE)
             ELSE Effect(Offline, <<Note("Server stopped.")>>,
                         <<>>, {}, None, None, FALSE)
        ELSE IF s.tag = "Running" /\ server_stopped
        THEN Effect(s, <<DiedNote>>, <<>>, {}, None, None, FALSE)
        ELSE Effect(s, <<>>, <<>>, {}, None, None, FALSE)

PollEffect_WaitForRcon ==
    LET s == server_status
        server_stopped == s.server \notin server_alive
        rcon_stopped == IF s.rcon # None THEN ~rcon_alive ELSE TRUE
    IN  IF s.tag = "Stopping" /\ s.server # None /\ server_stopped /\ rcon_stopped
        THEN Effect(Offline, <<Note("Server stopped.")>>,
                    <<>>, {}, None, None, FALSE)
        ELSE IF s.tag = "Running" /\ server_stopped
        THEN Effect(Offline, <<DiedNote>>, <<>>, {}, None, None, FALSE)
        ELSE Effect(s, <<>>, <<>>, {}, None, None, FALSE)

(* The poll block at the top of the loop *)
PollEffect ==
    LET s == server_status
        server_stopped == s.server \notin server_alive
        rcon_stopped == IF s.rcon # None THEN ~rcon_alive ELSE TRUE
    IN  IF s.tag = "Stopping" /\ s.server # None /\ server_stopped
        THEN IF ~rcon_stopped
             THEN Effect(Offline, <<Note("Server stopped before time.")>>,
                         <<>>, {s.rcon}, None, None, FALSE)
             ELSE Effect(Offline, <<Note("Server stopped.")>>,
                         <<>>, {}, None, None, FALSE)
        ELSE IF s.tag = "Running" /\ server_stopped
        THEN Effect(Offline, <<DiedNote>>,
                    <<>>, {}, None, None, FALSE)
        ELSE Effect(s, <<>>, <<>>, {}, None, None, FALSE)

(* The latest two entries of a record of send times *)
LatestTwo(times) ==
    IF Len(times) <= 2 THEN times ELSE SubSeq(times, Len(times) - 1, Len(times))

(* Where the loop goes after a handler: back to the poll block *)
NextIteration == "poll"

(* CachedChat and the arguments the relay arms pass to send_or_queue! *)
CachedChat(name, message) == [name |-> name, message |-> message]

RelayTypes == {"BackupStarted", "BackupFinished", "UserLogin", "UserLogout", "ChatMessage"}

RelayEvents == {ev \in LogEvents : ev.type \in RelayTypes}

RelayEntry(ev) ==
    IF ev.type = "BackupStarted" THEN CachedChat("Server", "*Backup started*")
    ELSE IF ev.type = "BackupFinished" THEN CachedChat("Server", "*Backup finished*")
    ELSE IF ev.type = "UserLogin" THEN CachedChat("Server", "*joined the game*")
    ELSE IF ev.type = "UserLogout" THEN CachedChat("Server", "*left the game*")
    ELSE CachedChat(ev.name, ev.message)

(* The entries of the messages in sent, in order *)
RECURSIVE EntriesOf(_)
EntriesOf(sent) ==
    IF sent = <<>> THEN <<>> ELSE Head(sent).entries \o EntriesOf(Tail(sent))

Apply(e, step, ev) ==
    /\ server_status' = e.status
    /\ server_alive' = server_alive \cup ({e.new_server} \ {None})
    /\ rcon_alive' = IF e.status.rcon = None THEN FALSE
                     ELSE IF e.new_rcon # None THEN TRUE
                     ELSE IF e.kills # {} THEN FALSE
                     ELSE rcon_alive
    /\ log_threads' = log_threads \cup ({e.new_server} \ {None})
    /\ died_count' = IF e.new_server # None THEN 0
                     ELSE died_count + Cardinality({i \in 1..Len(e.sent) : e.sent[i] = DiedNote})
    /\ error_notes' = IF \E i \in 1..Len(e.sent) : e.sent[i] = ErrorNote
                      THEN LatestTwo(Append(error_notes, clock))
                      ELSE error_notes
    /\ last' = Obs(step, ev, e.sent, e.spawns, e.kills)
    /\ pc' = IF e.exit THEN "exited"
             ELSE IF step = "poll" THEN "select" ELSE NextIteration
    /\ relay_log' = IF relay_log.on /\ step = "log" /\ ev.type \in RelayTypes
                     THEN RelayLog(TRUE, Append(relay_log.submitted, RelayEntry(ev)),
                                   relay_log.relayed \o EntriesOf(e.sent))
                     ELSE relay_log
    /\ discord_threads' = IF step = "discord" /\ ev.cmd \in {"ReconnectEvent", "Err"}
                              /\ ~e.exit
                           THEN discord_threads + 1 ELSE discord_threads
    /\ UNCHANGED <<line, scanned>>

Poll ==
    /\ pc = "poll"
    /\ Apply(PollEffect, "poll", NoEvent)
    /\ polled' = (server_status.server \in server_alive)
    /\ UNCHANGED <<from_discord, discord_alive, from_server_log, clock,
                   last_error_reported, last_chat_msg, chat_msg_cache>>

----------------------------------------------------------------------------
(* recv(from_discord) arms.  ok is the outcome of the spawn call the arm   *)
(* makes (config lookups included); kill_ok the outcome of rcon.kill().    *)

(* Mutant: the Starting guard of the StartServerEvent arm missing *)
StartEffect_Respawn(ok) ==
    LET s == server_status IN
    IF s.tag \in {"Running", "Stopping"} THEN Reply("Server already running")
    ELSE IF ~ok THEN SpawnFailed("server", <<>>, {})
    ELSE Effect(Starting(FreshPid, clock),
                <<Note("Server starting now, ETA 3 minutes")>>,
                <<SpawnCall("server", TRUE)>>, {}, FreshPid, None, FALSE)

StartEffect(ok) ==
    LET s == server_status IN
    IF s.tag \in {"Running", "Stopping"} THEN Reply("Server already running")
    ELSE IF s.tag = "Starting" THEN Reply("Server already starting")
    ELSE IF ~ok THEN SpawnFailed("server", <<>>, {})
    ELSE Effect(Starting(FreshPid, clock),
                <<Note("Server starting now, ETA 3 minutes")>>,
                <<SpawnCall("server", TRUE)>>, {}, FreshPid, None, FALSE)

(* Mutants of the stop/kill arms: the Stopping guard missing; the server   *)
(* handle not carried into Stopping; the Starting guard missing.           *)
ShutdownEffect_NoStoppingGuard(kind, text, ok) ==
    LET s == server_status
        server_process == IF s.tag = "Running" THEN s.server ELSE None
    IN  IF s.tag \in {"Offline", "Starting"} THEN Reply("Server is not running (yet)")
        ELSE IF ~ok THEN SpawnFailed(kind, <<>>, {})
        ELSE Effect(Stopping(server_process, RconChild), <<Note(text)>>,
                    <<SpawnCall(kind, TRUE)>>, {}, None, RconChild, FALSE)

ShutdownEffect_LosesHandle(kind, text, ok) ==
    LET s == server_status
    IN  IF s.tag \in {"Offline", "Starting"} THEN Reply("Server is not running (yet)")
        ELSE IF s.tag = "Stopping" THEN Reply("Server is already stopping")
        ELSE IF ~ok THEN SpawnFailed(kind, <<>>, {})
        ELSE Effect(Stopping(None, RconChild), <<Note(text)>>,
                    <<SpawnCall(kind, TRUE)>>, {}, None, RconChild, FALSE)

ShutdownEffect_StartingFallsThrough(kind, text, ok) ==
    LET s == server_status
        server_process == IF s.tag = "Running" THEN s.server ELSE None
    IN  IF s.tag = "Offline" THEN Reply("Server is not running (yet)")
        ELSE IF s.tag = "Stopping" THEN Reply("Server is already stopping")
        ELSE IF ~ok THEN SpawnFailed(kind, <<>>, {})
        ELSE Effect(Stopping(server_process, RconChild), <<Note(text)>>,
                    <<SpawnCall(kind, TRUE)>>, {}, None, RconChild, FALSE)

(* StopServerEvent and KillServerEvent differ in the mcrcon arguments and  *)
(* in the reply only.                                                      *)
ShutdownEffect(kind, text, ok) ==
    LET s == server_status
        server_process == IF s.tag = "Running" THEN s.server ELSE None
    IN  IF s.tag \in {"Offline", "Starting"} THEN Reply("Server is not running (yet)")
        ELSE IF s.tag = "Stopping" THEN Reply("Server is already stopping")
        ELSE IF ~ok THEN SpawnFailed(kind, <<>>, {})
        ELSE Effect(Stopping(server_process, RconChild), <<Note(text)>>,
                    <<SpawnCall(kind, TRUE)>>, {}, None, RconChild, FALSE)

StopEffect(ok) ==
    ShutdownEffect("rcon_stop",
        "Server will be stopped in 5 minutes, type mc!cancel to cancel", ok)

KillEffect(ok) ==
    ShutdownEffect("rcon_kill", "Server is stopping now", ok)

(* Mutant: the cancel arm forgetting the retained server handle *)
CancelEffect_DropsServer(ok, kill_ok) ==
    LET s == server_status
        reply == IF kill_ok THEN Note("Shutdown cancelled")
                 ELSE Note("Error while cancelling shutdown")
    IN  IF s.tag = "Stopping" /\ s.rcon # None
        THEN IF ~ok THEN SpawnFailed("rcon_say_cancelled", <<reply>>, {s.rcon})
             ELSE Effect(Unknown, <<reply>>, <<SpawnCall("rcon_say_cancelled", TRUE)>>,
                         {s.rcon}, None, None, FALSE)
        ELSE IF s.tag = "Stopping" THEN Reply("Shutdown cannot be cancelled")
        ELSE IF s.tag = "Offline" THEN Reply("Server is not running")
        ELSE Reply("No shutdown in progress")

(* Mutant: the cancel arm matching Stopping whatever its rcon *)
CancelEffect_IgnoresGracefulHandle(ok, kill_ok) ==
    LET s == server_status
        reply == IF kill_ok THEN Note("Shutdown cancelled")
                 ELSE Note("Error while cancelling shutdown")
    IN  IF s.tag = "Stopping"
        THEN IF ~ok THEN SpawnFailed("rcon_say_cancelled", <<reply>>, {s.rcon})
             ELSE Effect((IF s.server # None THEN Running(s.server) ELSE Unknown),
                         <<reply>>, <<SpawnCall("rcon_say_cancelled", TRUE)>>,
                         {s.rcon}, None, None, FALSE)
        ELSE IF s.tag = "Offline" THEN Reply("Server is not running")
        ELSE Reply("No shutdown in progress")

CancelEffect(ok, kill_ok) ==
    LET s == server_status
        reply == IF kill_ok THEN Note("Shutdown cancelled")
                 ELSE Note("Error while cancelling shutdown")
    IN  IF s.tag = "Stopping" /\ s.rcon # None
        THEN IF ~ok THEN SpawnFailed("rcon_say_cancelled", <<reply>>, {s.rcon})
             ELSE Effect((IF s.server # None THEN Running(s.server) ELSE Unknown),
                         <<reply>>, <<SpawnCall("rcon_say_cancelled", TRUE)>>,
                         {s.rcon}, None, None, FALSE)
        ELSE IF s.tag = "Stopping" THEN Reply("Shutdown cannot be cancelled")
        ELSE IF s.tag = "Offline" THEN Reply("Server is not running")
        ELSE Reply("No shutdown in progress")

(* Mutant: a backup started in Running forgets the server *)
BackupEffect_ForgetsServer(ok) ==
    LET s == server_status IN
    IF s.tag \in {"Offline", "Starting"} THEN Reply("Server is not running (yet)")
    ELSE IF s.tag = "Stopping" THEN Reply("Server is stopping")
    ELSE IF ~ok THEN SpawnFailed("rcon_backup", <<>>, {})
    ELSE Effect(Unknown, <<Note("Backup started.")>>,
                <<SpawnCall("rcon_backup", TRUE)>>, {}, None, None, FALSE)

BackupEffect(ok) ==
    LET s == server_status IN
    IF s.tag \in {"Offline", "Starting"} THEN Reply("Server is not running (yet)")
    ELSE IF s.tag = "Stopping" THEN Reply("Server is stopping")
    ELSE IF ~ok THEN SpawnFailed("rcon_backup", <<>>, {})
    ELSE Effect(s, <<Note("Backup started.")>>, <<SpawnCall("rcon_backup", TRUE)>>,
                {}, None, None, FALSE)

OpEffect(user, ok) ==
    LET s == server_status IN
    IF user = "" THEN Reply("Must provide a username to op")
    ELSE IF s.tag \in {"Offline", "Starting"} THEN Reply("Server is not running (yet)")
    ELSE IF s.tag = "Stopping" THEN Reply("Server is stopping")
    ELSE IF ~ok THEN SpawnFailed("rcon_backup_op", <<>>, {})
    ELSE Effect(s, <<Note("Opped user. All ops are logged.")>>,
                <<SpawnCall("rcon_backup_op", TRUE)>>, {}, None, None, FALSE)

(* Mutant: the Unknown arm of the status query answering as Offline *)
StatusEffect_UnknownAsOffline ==
    LET s == server_status IN
    IF s.tag \in {"Offline", "Unknown"} THEN Reply("Server is offline.")
    ELSE IF s.tag = "Starting" THEN Reply("Server is starting, check back in a few mins.")
    ELSE IF s.tag = "Running" THEN Reply("Server is running.")
    ELSE Reply("Server is stopping.")

StatusEffect ==
    LET s == server_status IN
    IF s.tag = "Offline" THEN Reply("Server is offline.")
    ELSE IF s.tag = "Unknown" THEN Reply("Server is probably offline, but worth a try.")
    ELSE IF s.tag = "Starting" THEN Reply("Server is starting, check back in a few mins.")
    ELSE IF s.tag = "Running" THEN Reply("Server is running.")
    ELSE Reply("Server is stopping.")

ShutdownServerEffect == Reply("Unimplemented, to be added later")

HelpEffect == Reply("Commands:")

UnknownCommandEffect == Reply("Unknown command, try mc!help if you are stuck")

(* Ok(FromDiscord::ErrorEvent): return Err *)
ErrorEventEffect == Effect(server_status, <<>>, <<>>, {}, None, None, TRUE)

(* rcon.kill() succeeds on a running child; on one that has exited the     *)
(* outcome depends on whether it was reaped and on the library version.    *)
KillOutcomes == IF rcon_alive THEN {TRUE} ELSE {TRUE, FALSE}

(* The server spawn needs a free process id. *)
SpawnOutcomes == IF FreePids = {} THEN {FALSE} ELSE {TRUE, FALSE}

Received(cmd) ==
    /\ pc = "select"
    /\ from_discord # <<>>
    /\ Head(from_discord).cmd = cmd

HandleCommand(e) ==
    /\ Apply(e, "discord", Head(from_discord))
    /\ from_discord' = Tail(from_discord)
    /\ UNCHANGED <<discord_alive, from_server_log, clock, polled,
                   last_error_reported, last_chat_msg, chat_msg_cache>>

HandleStart ==
    /\ Received("StartServerEvent")
    /\ \E ok \in SpawnOutcomes : HandleCommand(StartEffect(ok))

HandleStop ==
    /\ Received("StopServerEvent")
    /\ \E ok \in BOOLEAN : HandleCommand(StopEffect(ok))

HandleKill ==
    /\ Received("KillServerEvent")
    /\ \E ok \in BOOLEAN : HandleCommand(KillEffect(ok))

HandleShutdown ==
    /\ Received("ShutdownServerEvent")
    /\ HandleCommand(ShutdownServerEffect)

HandleCancel ==
    /\ Received("CancelShutdownEvent")
    /\ \E ok \in BOOLEAN, kill_ok \in KillOutcomes : HandleCommand(CancelEffect(ok, kill_ok))

HandleBackup ==
    /\ Received("BackupEvent")
    /\ \E ok \in BOOLEAN : HandleCommand(BackupEffect(ok))

HandleOp ==
    /\ Received("OpCommandEvent")
    /\ \E ok \in BOOLEAN : HandleCommand(OpEffect(Head(from_discord).user, ok))

HandleStatus ==
    /\ Received("StatusQueryEvent")
    /\ HandleCommand(StatusEffect)

HandleHelp ==
    /\ Received("HelpEvent")
    /\ HandleCommand(HelpEffect)

HandleUnknownCommand ==
    /\ pc = "select"
    /\ from_discord # <<>>
    /\ Head(from_discord).cmd \in {"UnknownCommand", "NoCommand"}
    /\ HandleCommand(UnknownCommandEffect)

HandleErrorEvent ==
    /\ Received("ErrorEvent")
    /\ HandleCommand(ErrorEventEffect)

(* Err(_) | Ok(FromDiscord::ReconnectEvent): bot.connect()? and a new      *)
(* channel with a new discord_thread.  recv yields Err only on an empty    *)
(* channel whose sender is gone.                                           *)
HandleReconnect ==
    /\ pc = "select"
    /\ \/ from_discord # <<>> /\ Head(from_discord).cmd = "ReconnectEvent"
       \/ from_discord = <<>> /\ ~discord_alive
    /\ \E ok \in BOOLEAN :
          /\ Apply(Effect(server_status, <<>>, <<>>, {}, None, None, ~ok), "discord",
                   IF from_discord # <<>> THEN Head(from_discord) ELSE Cmd("Err"))
          /\ from_discord' = IF ok THEN <<>> ELSE from_discord
          /\ discord_alive' = IF ok THEN TRUE ELSE discord_alive
    /\ UNCHANGED <<from_server_log, clock, polled,
                   last_error_reported, last_chat_msg, chat_msg_cache>>

----------------------------------------------------------------------------
(* recv(from_server_log) arms *)

(* Mutant: ServerStarted outside Starting taking the server for stopped *)
ServerStartedEffect_Offline ==
    LET s == server_status IN
    IF s.tag = "Starting"
    THEN Effect(Running(s.server),
                <<[text |-> "Server is now running, startup",
                   secs |-> clock - s.start_time, entries |-> <<>>]>>,
                <<>>, {}, None, None, FALSE)
    ELSE Effect(Offline, <<>>, <<>>, {}, None, None, FALSE)

(* Mutant: ServerStarted outside Starting leaving the state alone *)
ServerStartedEffect_KeepsState ==
    LET s == server_status IN
    IF s.tag = "Starting"
    THEN Effect(Running(s.server),
                <<[text |-> "Server is now running, startup",
                   secs |-> clock - s.start_time, entries |-> <<>>]>>,
                <<>>, {}, None, None, FALSE)
    ELSE Effect(s, <<>>, <<>>, {}, None, None, FALSE)

ServerStartedEffect ==
    LET s == server_status IN
    IF s.tag = "Starting"
    THEN Effect(Running(s.server),
                <<[text |-> "Server is now running, startup",
                   secs |-> clock - s.start_time, entries |-> <<>>]>>,
                <<>>, {}, None, None, FALSE)
    ELSE Effect(Unknown, <<>>, <<>>, {}, None, None, FALSE)

(* Mutant: ServerStopping rebuilding Stopping without its rcon *)
ServerStoppingEffect_ClearsRcon ==
    LET s == server_status IN
    Effect(IF s.tag \in {"Running", "Stopping"} THEN Stopping(s.server, None) ELSE s,
           <<Note("Server is now stopping...")>>, <<>>, {}, None, None, FALSE)

ServerStoppingEffect ==
    LET s == server_status IN
    Effect(IF s.tag = "Running" THEN Stopping(s.server, None) ELSE s,
           <<Note("Server is now stopping...")>>, <<>>, {}, None, None, FALSE)

(* Mutant: the throttle without its interval *)
ErrorReported_NoThrottle ==
    server_status.tag \in {"Running", "Stopping"}

(* The throttle of ServerError reports *)
ErrorReported ==
    /\ server_status.tag \in {"Running", "Stopping"}
    /\ clock - last_error_reported >= ERROR_TIMEOUT

ServerErrorEffect ==
    Effect(server_status,
           IF ErrorReported THEN <<ErrorNote>> ELSE <<>>,
           <<>>, {}, None, None, FALSE)

LagSpikeEffect ==
    Effect(server_status, <<Note("Lag spike")>>, <<>>, {}, None, None, FALSE)

(* Mutant: the interval test of send_or_queue! not strict *)
FlushNow_NonStrict == clock - last_chat_msg >= MESSAGE_TIMEOUT

(* send_or_queue!: flush the cache with the new entry, or queue the entry *)
FlushNow == clock - last_chat_msg > MESSAGE_TIMEOUT

SendOrQueueEffect(entry) ==
    Effect(server_status,
           IF FlushNow
           THEN <<[text |-> "chat", secs |-> 0, entries |-> Append(chat_msg_cache, entry)]>>
           ELSE <<>>,
           <<>>, {}, None, None, FALSE)

LogReceived(types) ==
    /\ pc = "select"
    /\ from_server_log # <<>>
    /\ Head(from_server_log).type \in types

HandleLog(e) ==
    /\ Apply(e, "log", Head(from_server_log))
    /\ from_server_log' = Tail(from_server_log)
    /\ UNCHANGED <<from_discord, discord_alive, clock, polled>>

HandleServerStarted ==
    /\ LogReceived({"ServerStarted"})
    /\ HandleLog(ServerStartedEffect)
    /\ UNCHANGED <<last_error_reported, last_chat_msg, chat_msg_cache>>

HandleServerStopping ==
    /\ LogReceived({"ServerStopping"})
    /\ HandleLog(ServerStoppingEffect)
    /\ UNCHANGED <<last_error_reported, last_chat_msg, chat_msg_cache>>

HandleServerError ==
    /\ LogReceived({"ServerError"})
    /\ HandleLog(ServerErrorEffect)
    /\ last_error_reported' = IF ErrorReported THEN clock ELSE last_error_reported
    /\ UNCHANGED <<last_chat_msg, chat_msg_cache>>

HandleLagSpike ==
    /\ LogReceived({"LagSpike"})
    /\ HandleLog(LagSpikeEffect)
    /\ UNCHANGED <<last_error_reported, last_chat_msg, chat_msg_cache>>

(* Mutant: the flush leaves the cache as it was *)
HandleRelay_KeepsCache ==
    /\ LogReceived(RelayTypes)
    /\ LET entry == RelayEntry(Head(from_server_log)) IN
          /\ HandleLog(SendOrQueueEffect(entry))
          /\ last_chat_msg' = IF FlushNow THEN clock ELSE last_chat_msg
          /\ chat_msg_cache' = IF FlushNow THEN chat_msg_cache
                                ELSE Append(chat_msg_cache, entry)
    /\ UNCHANGED last_error_reported

HandleRelay ==
    /\ LogReceived(RelayTypes)
    /\ LET entry == RelayEntry(Head(from_server_log)) IN
          /\ HandleLog(SendOrQueueEffect(entry))
          /\ last_chat_msg' = IF FlushNow THEN clock ELSE last_chat_msg
          /\ chat_msg_cache' = IF FlushNow THEN <<>> ELSE Append(chat_msg_cache, entry)
    /\ UNCHANGED last_error_reported

(* recv(from_server_log) yields Err only on an empty channel with no sender *)
(* left; main_thread keeps server_log_send itself.                         *)
LogSenders == {"main_thread"} \cup log_threads

HandleLogClosed ==
    /\ pc = "select"
    /\ from_server_log = <<>>
    /\ LogSenders = {}
    /\ Apply(Effect(IF server_status.tag \in {"Unknown", "Offline"}
                    THEN server_status ELSE Unknown,
                    <<>>, <<>>, {}, None, None, FALSE),
             "log", LogEv("Err"))
    /\ from_server_log' = <<>>
    /\ UNCHANGED <<from_discord, discord_alive, clock, polled,
                   last_error_reported, last_chat_msg, chat_msg_cache>>

(* recv(timeout) -> continue: the 1-second tick comes due while the loop   *)
(* waits in select!                                                        *)
HandleTimeout ==
    /\ pc = "select"
    /\ Apply(Effect(server_status, <<>>, <<>>, {}, None, None, FALSE),
             "tick", NoEvent)
    /\ UNCHANGED <<from_discord, discord_alive, from_server_log, clock, polled,
                   last_error_reported, last_chat_msg, chat_msg_cache>>

----------------------------------------------------------------------------
(* The environment: processes, producer threads, time *)

EnvStep ==
    /\ last' = NoObs
    /\ UNCHANGED <<pc, server_status, last_error_reported, last_chat_msg,
                   chat_msg_cache, died_count, error_notes, polled, line,
                   scanned, relay_log>>

EnvUnchanged == EnvStep /\ UNCHANGED discord_threads

ServerExit(p) ==
    /\ pc # "exited"
    /\ p \in server_alive
    /\ server_alive' = server_alive \ {p}
    /\ EnvUnchanged
    /\ UNCHANGED <<rcon_alive, from_discord, discord_alive, from_server_log,
                   log_threads, clock>>

RconExit ==
    /\ pc # "exited"
    /\ rcon_alive
    /\ rcon_alive' = FALSE
    /\ EnvUnchanged
    /\ UNCHANGED <<server_alive, from_discord, discord_alive, from_server_log,
                   log_threads, clock>>

(* Mutant: a send that does not wait for room in the channel *)
DiscordSendUpTo_Unbounded(msg, limit) ==
    /\ pc # "exited"
    /\ discord_alive
    /\ InFlight < limit
    /\ from_discord' = Append(from_discord, msg)
    /\ EnvUnchanged
    /\ UNCHANGED <<server_alive, rcon_alive, discord_alive, from_server_log,
                   log_threads, clock>>

(* discord_thread: discord_send.send(<command>) returns once the channel,  *)
(* of capacity 5, has taken the event; limit caps the events in flight.    *)
DiscordSendUpTo(msg, limit) ==
    /\ pc # "exited"
    /\ discord_alive
    /\ Len(from_discord) < CHANNEL_CAP
    /\ InFlight < limit
    /\ from_discord' = Append(from_discord, msg)
    /\ EnvUnchanged
    /\ UNCHANGED <<server_alive, rcon_alive, discord_alive, from_server_log,
                   log_threads, clock>>

DiscordSend(msg) == DiscordSendUpTo(msg, MaxInFlight)

(* Mutant: the thread goes on receiving after it has sent the event *)
DiscordReceiveErrorUpTo_Continues(cmd, limit) ==
    /\ pc # "exited"
    /\ discord_alive
    /\ Len(from_discord) < CHANNEL_CAP
    /\ InFlight < limit
    /\ from_discord' = Append(from_discord, Cmd(cmd))
    /\ EnvUnchanged
    /\ UNCHANGED <<server_alive, rcon_alive, discord_alive, from_server_log,
                   log_threads, clock>>

(* discord_thread: a receive error; send ReconnectEvent or ErrorEvent, return *)
DiscordReceiveErrorUpTo(cmd, limit) ==
    /\ pc # "exited"
    /\ discord_alive
    /\ Len(from_discord) < CHANNEL_CAP
    /\ InFlight < limit
    /\ from_discord' = Append(from_discord, Cmd(cmd))
    /\ discord_alive' = FALSE
    /\ discord_threads' = discord_threads - 1
    /\ EnvStep
    /\ UNCHANGED <<server_alive, rcon_alive, from_server_log,
                   log_threads, clock>>

DiscordReceiveError(cmd) == DiscordReceiveErrorUpTo(cmd, MaxInFlight)

(* Entries the relay would have to buffer, were every queued one delivered *)
RECURSIVE RelayCount(_)
RelayCount(q) ==
    IF q = <<>> THEN 0
    ELSE (IF Head(q).type \in RelayTypes THEN 1 ELSE 0) + RelayCount(Tail(q))

(* An event in the log channel.  The channel carries the FromServerLog     *)
(* value alone; src records which server's log thread sent it.             *)
FromThread(p, ev) ==
    [type |-> ev.type, name |-> ev.name, message |-> ev.message, src |-> p]

(* server_log_thread of server p: log_send.send(<event>) *)
LogEmitUpTo(p, ev, limit) ==
    /\ pc # "exited"
    /\ p \in log_threads
    /\ Len(from_server_log) < CHANNEL_CAP
    /\ InFlight < limit
    /\ ev.type \in RelayTypes =>
          Len(chat_msg_cache) + RelayCount(from_server_log) < MaxCache
    /\ from_server_log' = Append(from_server_log, FromThread(p, ev))
    /\ EnvUnchanged
    /\ UNCHANGED <<server_alive, rcon_alive, from_discord, discord_alive,
                   log_threads, clock>>

LogEmit(p, ev) == LogEmitUpTo(p, ev, MaxInFlight)

(* server_log_thread of server p: end of the output of an exited server *)
LogThreadEnd(p) ==
    /\ pc # "exited"
    /\ p \in log_threads
    /\ p \notin server_alive
    /\ log_threads' = log_threads \ {p}
    /\ EnvUnchanged
    /\ UNCHANGED <<server_alive, rcon_alive, from_discord, discord_alive,
                   from_server_log, clock>>

(* Time passes while the loop waits in select!: the handlers are the only  *)
(* readers of Local::now().                                                *)
Tick(d, limit) ==
    /\ pc = "select"
    /\ clock + d <= limit
    /\ clock' = clock + d
    /\ EnvUnchanged
    /\ UNCHANGED <<server_alive, rcon_alive, from_discord, discord_alive,
                   from_server_log, log_threads>>

ClockAdvance == Tick(1, MaxTime)

CoarseClockAdvance == Tick(ErrorTick, MaxErrorTime)

----------------------------------------------------------------------------
(* The log-line scanner.  A line is the sequence of its tokens: the bytes   *)
(* the formats use as delimiters are tokens of their own, a run of other    *)
(* bytes is one token, and "\n" is the byte bytes_endl! appends.            *)

(* text_io::try_scan!: a literal byte of the format must be the next byte   *)
(* of the input; a capture takes the input up to the first occurrence of    *)
(* the format byte that follows it, and consumes that byte.                 *)
RECURSIVE ScanFrom(_, _, _)
ScanFrom(format, input, values) ==
    IF format = <<>> THEN [ok |-> TRUE, values |-> values]
    ELSE IF Head(format) = "{}"
    THEN LET stops == {i \in 1..Len(input) : input[i] = format[2]}
         IN IF stops = {} THEN [ok |-> FALSE, values |-> <<>>]
            ELSE LET k == CHOOSE i \in stops : \A j \in stops : i <= j
                 IN ScanFrom(SubSeq(format, 3, Len(format)),
                             SubSeq(input, k + 1, Len(input)),
                             Append(values, SubSeq(input, 1, k - 1)))
    ELSE IF input # <<>> /\ Head(input) = Head(format)
    THEN ScanFrom(Tail(format), Tail(input), values)
    ELSE [ok |-> FALSE, values |-> <<>>]

try_scan(input, format) == ScanFrom(format, input, <<>>)

bytes_endl(message) == message \o <<"\n">>

(* "[{}] [{}/{}] [{}]: ", the part the four line formats share *)
LinePrefix ==
    <<"[", "{}", "]", " ", "[", "{}", "/", "{}", "]", " ", "[", "{}", "]", ":", " ">>

ScannedLine(time_str, sender_thread, level, sender_handle, is_chat_msg, message) ==
    [ok |-> TRUE, time_str |-> time_str, sender_thread |-> sender_thread,
     level |-> level, sender_handle |-> sender_handle,
     is_chat_msg |-> is_chat_msg, message |-> message]

(* "[{}] [{}/{}] [{}]: <{}> {}\n" *)
scan_msg(l) ==
    LET r == try_scan(bytes_endl(l), LinePrefix \o <<"<", "{}", ">", " ", "{}", "\n">>)
    IN IF ~r.ok THEN Err
       ELSE ScannedLine(r.values[1], r.values[2], r.values[3], r.values[5],
                        TRUE, r.values[6])

(* "[{}] [{}/{}] [{}]: [{}] {}\n" *)
scan_console_msg(l) ==
    LET r == try_scan(bytes_endl(l), LinePrefix \o <<"[", "{}", "]", " ", "{}", "\n">>)
    IN IF ~r.ok THEN Err
       ELSE ScannedLine(r.values[1], r.values[2], r.values[3], r.values[5],
                        r.values[5] = <<"Server">> \/ r.values[5] = <<"Rcon">>,
                        r.values[6])

(* "[{}] [{}/{}] [{}]: [{}]: {}\n" *)
scan_fucky_log(l) ==
    LET r == try_scan(bytes_endl(l),
                      LinePrefix \o <<"[", "{}", "]", ":", " ", "{}", "\n">>)
    IN IF ~r.ok THEN Err
       ELSE ScannedLine(r.values[1], r.values[2], r.values[3], r.values[5],
                        FALSE, r.values[6])

(* "[{}] [{}/{}] [{}]: {}\n" *)
scan_log(l) ==
    LET r == try_scan(bytes_endl(l), LinePrefix \o <<"{}", "\n">>)
    IN IF ~r.ok THEN Err
       ELSE ScannedLine(r.values[1], r.values[2], r.values[3], r.values[4],
                        FALSE, r.values[5])

(* first.or_else(second): the first result if it is Ok, else the second *)
or_else(first, second) == IF first.ok THEN first ELSE second

(* The bare format tried first: it matches every line the others match. *)
scan_line_LogFirst(l) ==
    or_else(or_else(or_else(scan_log(l), scan_msg(l)), scan_console_msg(l)),
            scan_fucky_log(l))

scan_line(l) ==
    or_else(or_else(or_else(scan_msg(l), scan_console_msg(l)), scan_fucky_log(l)),
            scan_log(l))

(* The literal matchers.  A FromServerLog value is a LogEv record; the     *)
(* captures that main_thread never reads (durations, tick counts) are not  *)
(* kept, a user name is kept as its tokens.                                *)
Matched(ev) == [ok |-> TRUE, ev |-> ev]

DedicatedServer == <<"minecraft", "/", "DedicatedServer">>
MinecraftServer == <<"minecraft", "/", "MinecraftServer">>

(* check_sender!, check_message!, Ok($variant) *)
simple_scan(sender, message, sender_lit, message_lit, variant) ==
    IF sender # sender_lit THEN Err
    ELSE IF message # message_lit THEN Err
    ELSE Matched(variant)

scan_server_start(sender, message) ==
    simple_scan(sender, message, <<"mcjtylib_ng">>,
                <<"RFTools", ":", " ", "server", " ", "is", " ", "starting">>,
                LogEv("ServerStarted"))

scan_server_stop(sender, message) ==
    simple_scan(sender, message, DedicatedServer,
                <<"Stopping", " ", "the", " ", "server">>,
                LogEv("ServerStopping"))

scan_backup_start(sender, message) ==
    simple_scan(sender, message, DedicatedServer,
                <<"Server", " ", "Backup", " ", "started", "!">>,
                LogEv("BackupStarted"))

(* str::parse::<i64>() and ::<usize>() of a capture: a run of digits *)
Numerals == {"0", "00", "1", "10", "102", "5125"}
IsNumber(capture) == Len(capture) = 1 /\ capture[1] \in Numerals

(* "Server backup done in {}:{}! ({})\n" *)
scan_backup_stop(sender, message) ==
    IF sender # DedicatedServer THEN Err
    ELSE LET r == try_scan(bytes_endl(message),
                           <<"Server", " ", "backup", " ", "done", " ", "in", " ",
                             "{}", ":", "{}", "!", " ", "(", "{}", ")", "\n">>)
         IN IF ~r.ok THEN Err
            ELSE IF ~(IsNumber(r.values[1]) /\ IsNumber(r.values[2])) THEN Err
            ELSE Matched(LogEv("BackupFinished"))

(* "Can't keep up! Did the system time change, or is the server            *)
(* overloaded? Running {}ms behind, skipping {} tick(s)\n"; the apostrophe *)
(* is left out of the first token, and "ms" is one token.                  *)
scan_lag_spike(sender, message) ==
    IF sender # MinecraftServer THEN Err
    ELSE LET r == try_scan(bytes_endl(message),
                           <<"Cant", " ", "keep", " ", "up", "!", " ", "Did", " ",
                             "the", " ", "system", " ", "time", " ", "change,", " ",
                             "or", " ", "is", " ", "the", " ", "server", " ",
                             "overloaded?", " ", "Running", " ", "{}", "ms", " ",
                             "behind,", " ", "skipping", " ", "{}", " ", "tick",
                             "(", "s", ")", "\n">>)
         IN IF ~r.ok THEN Err
            ELSE IF ~(IsNumber(r.values[1]) /\ IsNumber(r.values[2])) THEN Err
            ELSE Matched(LogEv("LagSpike"))

(* "{} joined the game\n" *)
scan_user_login(sender, message) ==
    IF sender # DedicatedServer THEN Err
    ELSE LET r == try_scan(bytes_endl(message),
                           <<"{}", " ", "joined", " ", "the", " ", "game", "\n">>)
         IN IF ~r.ok THEN Err
            ELSE Matched([type |-> "UserLogin", name |-> r.values[1], message |-> ""])

(* "{} left the game\n" *)
scan_user_logout(sender, message) ==
    IF sender # DedicatedServer THEN Err
    ELSE LET r == try_scan(bytes_endl(message),
                           <<"{}", " ", "left", " ", "the", " ", "game", "\n">>)
         IN IF ~r.ok THEN Err
            ELSE Matched([type |-> "UserLogout", name |-> r.values[1], message |-> ""])

(* The matcher chain of server_log_thread, in its order: the first Ok. *)
MatcherChain(sender, message) ==
    or_else(scan_server_start(sender, message),
    or_else(scan_server_stop(sender, message),
    or_else(scan_lag_spike(sender, message),
    or_else(scan_backup_start(sender, message),
    or_else(scan_backup_stop(sender, message),
    or_else(scan_user_login(sender, message),
            scan_user_logout(sender, message)))))))

(* log::Level of a level token; Level::Error is the least of the enum. *)
LevelOf(token) ==
    CASE token = "INFO" -> "Info"
      [] token = "WARN" -> "Warn"
      [] token = "ERROR" -> "Error"
      [] token = "FATAL" -> "Error"
      [] token = "DEBUG" -> "Debug"
      [] token = "TRACE" -> "Trace"
      [] OTHER -> "Trace"

LevelRank(level) ==
    CASE level = "Error" -> 1
      [] level = "Warn" -> 2
      [] level = "Info" -> 3
      [] level = "Debug" -> 4
      [] level = "Trace" -> 5

(* level <= Level::Warn in place of level <= Level::Error *)
IsErrorLevel_Warn(level) == LevelRank(level) <= LevelRank("Warn")

(* level <= Level::Error *)
IsErrorLevel(level) == LevelRank(level) <= LevelRank("Error")

LevelToken(capture) == IF Len(capture) = 1 THEN capture[1] ELSE ""

(* The matcher chain run on every recognized line, chat or not. *)
LineEvents_MatchersFirst(r) ==
    IF ~r.ok THEN <<>>
    ELSE LET m == MatcherChain(r.sender_handle, r.message)
         IN IF m.ok THEN <<m.ev>>
            ELSE IF r.is_chat_msg
            THEN <<[type |-> "ChatMessage", name |-> r.sender_handle,
                    message |-> r.message]>>
            ELSE IF IsErrorLevel(LevelOf(LevelToken(r.level)))
            THEN <<LogEv("ServerError")>>
            ELSE <<>>

(* What server_log_thread sends for one line: the events of one pass       *)
(* through the body of its loop.                                           *)
LineEvents(r) ==
    IF ~r.ok THEN <<>>
    ELSE IF r.is_chat_msg
    THEN <<[type |-> "ChatMessage", name |-> r.sender_handle, message |-> r.message]>>
    ELSE LET m == MatcherChain(r.sender_handle, r.message)
         IN IF m.ok THEN <<m.ev>>
            ELSE IF IsErrorLevel(LevelOf(LevelToken(r.level)))
            THEN <<LogEv("ServerError")>>
            ELSE <<>>

(* The lines given to the log thread: every level token, user and text     *)
(* below in each of the three forms that name a user, every level token,   *)
(* source tag and text in the bare form, and lines without the header.     *)
TimeStamp == <<"21", ":", "07", ":", "11">>
ServerThread == <<"Server", " ", "thread">>
LevelTokens == {"INFO", "WARN", "ERROR", "FATAL", "DEBUG", "TRACE", "NOTICE"}
SourceTags ==
    {DedicatedServer, MinecraftServer, <<"mcjtylib_ng">>,
     <<"net.minecraft.server.MinecraftServer">>}
LineUsers ==
    {<<"Kistepsi">>, <<"Server">>, <<"Rcon">>, <<"Astral", " ", "Sorcery">>,
     <<"mcjtylib_ng">>, DedicatedServer, MinecraftServer}
LineTexts ==
    {<<"nem">>,
     <<"java.lang.NullPointerException">>,
     <<"RFTools", ":", " ", "server", " ", "is", " ", "starting">>,
     <<"Stopping", " ", "the", " ", "server">>,
     <<"Stopping", " ", "server">>,
     <<"Server", " ", "Backup", " ", "started", "!">>,
     <<"Server", " ", "backup", " ", "done", " ", "in", " ", "00", ":", "10", "!",
       " ", "(", "202.8MB", ")">>,
     <<"Cant", " ", "keep", " ", "up", "!", " ", "Did", " ", "the", " ", "system",
       " ", "time", " ", "change,", " ", "or", " ", "is", " ", "the", " ", "server",
       " ", "overloaded?", " ", "Running", " ", "5125", "ms", " ", "behind,", " ",
       "skipping", " ", "102", " ", "tick", "(", "s", ")">>,
     <<"Davidminer_MC", " ", "joined", " ", "the", " ", "game">>,
     <<"Kistepsi", " ", "left", " ", "the", " ", "game">>}

Payload(form, user, text) ==
    CASE form = "chat" -> <<"<">> \o user \o <<">", " ">> \o text
      [] form = "console" -> <<"[">> \o user \o <<"]", " ">> \o text
      [] form = "tagged" -> <<"[">> \o user \o <<"]", ":", " ">> \o text
      [] form = "bare" -> text

LogLine(form, level, tag, user, text) ==
    [form |-> form, level |-> level, tag |-> tag, user |-> user, text |-> text,
     tokens |-> <<"[">> \o TimeStamp \o <<"]", " ", "[">> \o ServerThread
                \o <<"/", level, "]", " ", "[">> \o tag \o <<"]", ":", " ">>
                \o Payload(form, user, text)]

RawLine(text) ==
    [form |-> "raw", level |-> "", tag |-> <<>>, user |-> <<>>, text |-> text,
     tokens |-> text]

Lines ==
    {LogLine(form, level, DedicatedServer, user, text) :
        form \in {"chat", "console", "tagged"}, level \in LevelTokens,
        user \in LineUsers, text \in LineTexts}
    \cup {LogLine("bare", level, tag, <<>>, text) :
            level \in LevelTokens, tag \in SourceTags, text \in LineTexts}
    \cup {RawLine(text) : text \in LineTexts}

(* server_log_thread of server p reads the line and sends what it yields. *)
ReadLine(p) ==
    /\ pc # "exited"
    /\ p \in log_threads
    /\ line # NoLine
    /\ ~scanned.read
    /\ LET r == scan_line(line.tokens)
           out == LineEvents(r)
       IN /\ Len(from_server_log) + Len(out) <= CHANNEL_CAP
          /\ scanned' = [read |-> TRUE, result |-> r]
          /\ from_server_log' =
                from_server_log \o [i \in 1..Len(out) |-> FromThread(p, out[i])]
    /\ last' = NoObs
    /\ UNCHANGED <<pc, server_status, server_alive, rcon_alive, from_discord,
                   discord_alive, log_threads, clock, last_error_reported,
                   last_chat_msg, chat_msg_cache, died_count, error_notes,
                   polled, line, relay_log, discord_threads>>

----------------------------------------------------------------------------
Next ==
    \/ Poll
    \/ HandleStart
    \/ HandleStop
    \/ HandleKill
    \/ HandleShutdown
    \/ HandleCancel
    \/ HandleBackup
    \/ HandleOp
    \/ HandleStatus
    \/ HandleHelp
    \/ HandleUnknownCommand
    \/ HandleErrorEvent
    \/ HandleReconnect
    \/ HandleServerStarted
    \/ HandleServerStopping
    \/ HandleServerError
    \/ HandleLagSpike
    \/ HandleTimeout
    \/ \E p \in Pids : ServerExit(p)
    \/ RconExit
    \/ \E msg \in OperatorCommands : DiscordSend(msg)
    \/ \E cmd \in {"ReconnectEvent", "ErrorEvent"} : DiscordReceiveError(cmd)
    \/ \E p \in Pids, ev \in LogEvents \ RelayEvents : LogEmit(p, ev)
    \/ \E p \in Pids : LogThreadEnd(p)

Spec == Init /\ [][Next]_vars

(* The scheduling of the control loop.  Its thread keeps running, so the   *)
(* poll block is executed and the select! returns: the 1-second tick is    *)
(* ready at the latest a second after the wait began.  Among the           *)
(* operations that are ready select! picks one at random, so an arm that   *)
(* is ready again and again is picked in the end.                          *)
DiscordArm ==
    \/ HandleStart \/ HandleStop \/ HandleKill \/ HandleShutdown \/ HandleCancel
    \/ HandleBackup \/ HandleOp \/ HandleStatus \/ HandleHelp
    \/ HandleUnknownCommand \/ HandleErrorEvent \/ HandleReconnect

LogArm ==
    \/ HandleServerStarted \/ HandleServerStopping \/ HandleServerError
    \/ HandleLagSpike \/ HandleRelay

(* Mutant: a select that takes the first ready arm in a fixed order, the   *)
(* tick first                                                              *)
SelectFairness_Biased ==
    /\ WF_vars(Poll)
    /\ WF_vars(HandleTimeout \/ DiscordArm \/ LogArm)

SelectFairness ==
    /\ WF_vars(Poll)
    /\ WF_vars(HandleTimeout \/ DiscordArm \/ LogArm)
    /\ SF_vars(DiscordArm)
    /\ SF_vars(LogArm)

SpecFair == Spec /\ SelectFairness

(* The control loop with time passing: one operator starting servers, the  *)
(* lifecycle and error lines of the server log, and the clock.             *)
TimedLogEvents ==
    {LogEv(t) : t \in {"ServerStarted", "ServerStopping", "ServerError"}}

NextTimed ==
    \/ Poll
    \/ HandleStart
    \/ HandleServerStarted
    \/ HandleServerStopping
    \/ HandleServerError
    \/ HandleTimeout
    \/ \E p \in Pids : ServerExit(p)
    \/ DiscordSend(Cmd("StartServerEvent"))
    \/ \E p \in Pids, ev \in TimedLogEvents : LogEmit(p, ev)
    \/ CoarseClockAdvance

SpecTimed == Init /\ [][NextTimed]_vars

(* The control loop relaying the chat of a started server, second by       *)
(* second.                                                                 *)
NextChat ==
    \/ Poll
    \/ HandleStart
    \/ HandleRelay
    \/ HandleTimeout
    \/ DiscordSend(Cmd("StartServerEvent"))
    \/ \E p \in Pids, ev \in RelayEvents : LogEmit(p, ev)
    \/ ClockAdvance

SpecChat == Init /\ [][NextChat]_vars

(* The control loop under load: both producers send whenever their channel *)
(* has room.                                                               *)
BothChannels == 2 * CHANNEL_CAP + 1

LoadCommands == {Cmd("StartServerEvent"), Cmd("StatusQueryEvent")}

NextLoaded ==
    \/ Poll
    \/ HandleStart
    \/ HandleStatus
    \/ HandleLagSpike
    \/ HandleTimeout
    \/ \E msg \in LoadCommands : DiscordSendUpTo(msg, BothChannels)
    \/ \E p \in Pids : LogEmitUpTo(p, LogEv("LagSpike"), BothChannels)

SpecLoaded == Init /\ [][NextLoaded]_vars

SpecLoadedFair == SpecLoaded /\ SelectFairness

(* The control loop relaying the chat of a started server, with the relay  *)
(* recorded and the clock read every FlushTick seconds, so that each       *)
(* reading allows one flush.                                               *)
InitRelay == InitLoop /\ line = NoLine /\ relay_log = RelayLog(TRUE, <<>>, <<>>)

RelayMix == {ev \in RelayEvents : ev.type \in {"ChatMessage", "UserLogin", "BackupStarted"}}

LogEmitRelay(p, ev) ==
    /\ Len(relay_log.submitted) + RelayCount(from_server_log) < MaxSubmitted
    /\ LogEmit(p, ev)

NextRelay ==
    \/ Poll
    \/ HandleStart
    \/ HandleRelay
    \/ HandleTimeout
    \/ DiscordSend(Cmd("StartServerEvent"))
    \/ \E p \in Pids, ev \in RelayMix : LogEmitRelay(p, ev)
    \/ Tick(FlushTick, MaxRelayTime)

SpecRelay == InitRelay /\ [][NextRelay]_vars

(* The control loop with every command and every log event, each producer  *)
(* sending its next event once the loop has taken the one before, and a    *)
(* relayed event only while the cache is empty; the producers keep         *)
(* running.                                                                *)
DiscordSendOne(msg) ==
    /\ from_discord = <<>>
    /\ DiscordSend(msg)

LogEmitOne(p, ev) ==
    /\ from_server_log = <<>>
    /\ ev.type \in RelayTypes => chat_msg_cache = <<>>
    /\ LogEmit(p, ev)

NextFrame ==
    \/ Poll
    \/ HandleStart
    \/ HandleStop
    \/ HandleKill
    \/ HandleShutdown
    \/ HandleCancel
    \/ HandleBackup
    \/ HandleOp
    \/ HandleStatus
    \/ HandleHelp
    \/ HandleUnknownCommand
    \/ HandleServerStarted
    \/ HandleServerStopping
    \/ HandleServerError
    \/ HandleLagSpike
    \/ HandleRelay
    \/ HandleTimeout
    \/ \E p \in Pids : ServerExit(p)
    \/ RconExit
    \/ \E msg \in OperatorCommands : DiscordSendOne(msg)
    \/ \E p \in Pids, ev \in LogEvents : LogEmitOne(p, ev)

SpecFrame == Init /\ [][NextFrame]_vars

(* The control loop with a command producer that sends whenever its        *)
(* channel has room and whose connection fails now and then.               *)
NextReconnect ==
    \/ Poll
    \/ HandleStart
    \/ HandleStatus
    \/ HandleReconnect
    \/ HandleTimeout
    \/ \E msg \in LoadCommands : DiscordSendUpTo(msg, BothChannels)
    \/ DiscordReceiveErrorUpTo("ReconnectEvent", BothChannels)

SpecReconnect == Init /\ [][NextReconnect]_vars

(* A started server whose log thread is given one line of output. *)
InitScan == InitLoop /\ line \in Lines /\ relay_log = NotLogged

NextScan ==
    \/ Poll
    \/ HandleStart
    \/ HandleTimeout
    \/ DiscordSend(Cmd("StartServerEvent"))
    \/ \E p \in Pids : ReadLine(p)

SpecScan == InitScan /\ [][NextScan]_vars

----------------------------------------------------------------------------
(* Properties.  `last` holds the observation of a main_thread step in the  *)
(* state that step produced, so an invariant over `last` relates the state *)
(* an event was handled in (last.pre) to the state handling it left.       *)

Handled(cmd) == last.step = "discord" /\ last.ev.cmd = cmd

HandledShutdown == Handled("StopServerEvent") \/ Handled("KillServerEvent")

HandledOperatorCommand == last.step = "discord" /\ last.ev \in OperatorCommands

SpawnFailure == \E i \in 1..Len(last.spawns) : ~last.spawns[i].ok

(* C1: StartRequested handled in Offline or Unknown makes exactly one      *)
(* spawn call, of the server, and when that spawn succeeds the state is    *)
(* Starting with the new, running process; StartRequested handled in       *)
(* Starting is answered with one notification, spawns nothing and leaves   *)
(* the state as it was.                                                    *)
C1_StartSpawnsOnce ==
    Handled("StartServerEvent") =>
        /\ last.pre.tag \in {"Offline", "Unknown"} =>
              /\ Len(last.spawns) = 1
              /\ last.spawns[1].kind = "server"
              /\ last.spawns[1].ok =>
                    /\ server_status.tag = "Starting"
                    /\ server_status.server \in server_alive
                    /\ server_status.server \in log_threads
                    /\ pc = "poll"
        /\ last.pre.tag = "Starting" =>
              /\ last.spawns = <<>>
              /\ last.sent = <<Note("Server already starting")>>
              /\ server_status = last.pre
              /\ pc = "poll"

C1_Witness ==
    /\ Handled("StartServerEvent")
    /\ last.pre.tag = "Starting"
    /\ server_status.tag = "Starting"

(* C2 as claimed: after every handled event the loop is back at the poll   *)
(* block, and an operator command is never handled in Running or Stopping  *)
(* while the held server process has already exited.                       *)
PollPrecedesEvent ==
    last.step \in {"discord", "log", "tick"} => pc \in {"poll", "exited"}

HandledWhileHeld ==
    /\ HandledOperatorCommand
    /\ last.pre.tag \in {"Running", "Stopping"}
    /\ last.pre.server # None

C2_Original ==
    /\ PollPrecedesEvent
    /\ HandledWhileHeld => last.srv_alive

(* C2 amended: the poll block runs before the event of every iteration,    *)
(* and a command handled in Running or Stopping finds a held server        *)
(* process that was still running when the poll block of that iteration    *)
(* looked at it (it may have exited since, while the loop waited).         *)
C2_PollBeforeEvent ==
    /\ PollPrecedesEvent
    /\ HandledWhileHeld => last.polled

C2_Witness ==
    /\ HandledWhileHeld
    /\ last.polled
    /\ ~last.srv_alive

(* C3: every operator command handled, in every state and on every path,   *)
(* is answered with exactly one outbound message.                          *)
C3_ExactlyOneReply ==
    HandledOperatorCommand => Len(last.sent) = 1

(* C4: a spawn failing while a command is handled leaves the lifecycle     *)
(* state as it was before the command, with the control loop going on,     *)
(* and is reported to the operator.                                        *)
C4_SpawnFailureAborts ==
    (last.step = "discord" /\ SpawnFailure) =>
        /\ server_status = last.pre
        /\ pc = "poll"
        /\ last.sent # <<>>

(* C5: the poll block finding the server of Running exited moves to        *)
(* Offline and sends the "died" notification once; that notification is    *)
(* sent by no other step, and at most once per spawned server.             *)
C5_RunningDied ==
    /\ (last.step = "poll" /\ last.pre.tag = "Running" /\ ~last.srv_alive) =>
          /\ server_status = Offline
          /\ last.sent = <<DiedNote>>
          /\ died_count = 1
    /\ (\E i \in 1..Len(last.sent) : last.sent[i] = DiedNote) =>
          (last.step = "poll" /\ last.pre.tag = "Running" /\ ~last.srv_alive)
    /\ died_count <= 1

C5_Witness ==
    /\ last.step = "poll"
    /\ last.pre.tag = "Running"
    /\ ~last.srv_alive
    /\ server_status = Offline

(* C6: the poll block in Stopping with a process handle: if the process    *)
(* has exited and the graceful handle has not, the graceful handle is      *)
(* killed and "stopped before time" is sent; if the process has exited and *)
(* the graceful handle is absent or exited, "stopped" is sent; either way  *)
(* the state is Offline.  While the process runs the state stays as it is, *)
(* nothing is killed and nothing is sent, whatever the graceful handle.    *)
C6_StoppingPoll ==
    (last.step = "poll" /\ last.pre.tag = "Stopping" /\ last.pre.server # None) =>
        /\ (~last.srv_alive /\ last.pre.rcon # None /\ last.rcon_alive) =>
              /\ last.kills = {last.pre.rcon}
              /\ last.sent = <<Note("Server stopped before time.")>>
              /\ server_status = Offline
        /\ (~last.srv_alive /\ ~(last.pre.rcon # None /\ last.rcon_alive)) =>
              /\ last.kills = {}
              /\ last.sent = <<Note("Server stopped.")>>
              /\ server_status = Offline
        /\ last.srv_alive =>
              /\ last.kills = {}
              /\ last.sent = <<>>
              /\ server_status = last.pre
              /\ rcon_alive = last.rcon_alive

C6_Witness ==
    /\ last.step = "poll"
    /\ last.pre.tag = "Stopping"
    /\ last.pre.server # None
    /\ ~last.srv_alive
    /\ last.rcon_alive
    /\ server_status = Offline

(* C7: CancelShutdownRequested handled in Stopping with a graceful handle  *)
(* kills that handle and makes the one spawn call of the "cancelled"       *)
(* notice; when that spawn succeeds the state is Running with the process  *)
(* handle Stopping retained, or Unknown if it retained none.               *)
C7_CancelShutdown ==
    (Handled("CancelShutdownEvent") /\ last.pre.tag = "Stopping" /\ last.pre.rcon # None) =>
        /\ last.kills = {last.pre.rcon}
        /\ ~rcon_alive
        /\ Len(last.spawns) = 1
        /\ last.spawns[1].kind = "rcon_say_cancelled"
        /\ last.spawns[1].ok =>
              /\ last.pre.server # None => server_status = Running(last.pre.server)
              /\ last.pre.server = None => server_status = Unknown

C7_Witness ==
    /\ Handled("CancelShutdownEvent")
    /\ last.pre.tag = "Stopping"
    /\ last.pre.rcon # None
    /\ last.pre.server # None
    /\ server_status = Running(last.pre.server)

(* C8 as claimed: StopRequested or KillRequested handled in any state but  *)
(* Running, Unknown included, spawns nothing and leaves the state as it    *)
(* was.                                                                    *)
C8_Original ==
    (HandledShutdown /\ last.pre.tag # "Running") =>
        /\ last.spawns = <<>>
        /\ server_status = last.pre

(* C8 amended: StopRequested and KillRequested spawn the remote shutdown   *)
(* command only in Running and in Unknown; in Unknown a successful spawn   *)
(* moves the state to Stopping with the graceful handle and no process     *)
(* handle; in Offline, Starting and Stopping nothing is spawned and the    *)
(* state is left as it was.                                                *)
C8_ShutdownOnlyWhenRunningOrUnknown ==
    HandledShutdown =>
        /\ last.spawns # <<>> => last.pre.tag \in {"Running", "Unknown"}
        /\ server_status # last.pre => last.pre.tag \in {"Running", "Unknown"}
        /\ last.pre.tag = "Unknown" =>
              /\ Len(last.spawns) = 1
              /\ last.spawns[1].kind \in {"rcon_stop", "rcon_kill"}
              /\ last.spawns[1].ok => server_status = Stopping(None, RconChild)
        /\ last.pre.tag \in {"Offline", "Starting", "Stopping"} =>
              /\ last.spawns = <<>>
              /\ server_status = last.pre

C8_Witness ==
    /\ HandledShutdown
    /\ last.pre.tag = "Unknown"
    /\ server_status = Stopping(None, RconChild)

(* C9: StopRequested or KillRequested handled in Running makes exactly one *)
(* spawn call, the staged sequence for Stop and the immediate shutdown for *)
(* Kill, and when it succeeds the state is Stopping holding the new,       *)
(* running graceful handle and the process handle Running held.            *)
C9_ShutdownFromRunning ==
    (HandledShutdown /\ last.pre.tag = "Running") =>
        /\ Len(last.spawns) = 1
        /\ last.spawns[1].kind =
              (IF last.ev.cmd = "StopServerEvent" THEN "rcon_stop" ELSE "rcon_kill")
        /\ last.spawns[1].ok =>
              /\ server_status = Stopping(last.pre.server, RconChild)
              /\ last.pre.server # None
              /\ rcon_alive

C9_Witness ==
    /\ Handled("KillServerEvent")
    /\ last.pre.tag = "Running"
    /\ server_status = Stopping(last.pre.server, RconChild)

(* C10: StopRequested or KillRequested handled in Offline, Starting or     *)
(* Stopping sends one notification, spawns and kills nothing, and leaves   *)
(* the state and the handles it holds as they were.                        *)
C10_ShutdownRefused ==
    (HandledShutdown /\ last.pre.tag \in {"Offline", "Starting", "Stopping"}) =>
        /\ Len(last.sent) = 1
        /\ last.spawns = <<>>
        /\ last.kills = {}
        /\ server_status = last.pre
        /\ rcon_alive = last.rcon_alive
        /\ pc = "poll"

C10_Witness ==
    /\ Handled("StopServerEvent")
    /\ last.pre.tag = "Stopping"
    /\ last.pre.rcon # None
    /\ server_status = last.pre

(* C11: CancelShutdownRequested handled in Stopping without a graceful     *)
(* handle, in Offline, in Unknown, in Starting or in Running sends one     *)
(* notification, kills and spawns nothing, and leaves the state and the    *)
(* handles it holds as they were.                                          *)
NonCancellable(s) == ~(s.tag = "Stopping" /\ s.rcon # None)

C11_CancelRefused ==
    (Handled("CancelShutdownEvent") /\ NonCancellable(last.pre)) =>
        /\ last.sent =
              <<Note(IF last.pre.tag = "Stopping" THEN "Shutdown cannot be cancelled"
                     ELSE IF last.pre.tag = "Offline" THEN "Server is not running"
                     ELSE "No shutdown in progress")>>
        /\ last.kills = {}
        /\ last.spawns = <<>>
        /\ server_status = last.pre
        /\ rcon_alive = last.rcon_alive
        /\ pc = "poll"

C11_Witness ==
    /\ Handled("CancelShutdownEvent")
    /\ last.pre.tag = "Stopping"
    /\ last.pre.rcon = None
    /\ last.pre.server # None
    /\ server_status = last.pre

(* C13: a ServerStopping log event handled in Running moves the state to   *)
(* Stopping with the process handle Running held and no graceful handle;   *)
(* handled in any other state it leaves the state as it was, the graceful  *)
(* handle of Stopping included.                                            *)
HandledLog(type) == last.step = "log" /\ last.ev.type = type

C13_ServerStopping ==
    HandledLog("ServerStopping") =>
        /\ last.pre.tag = "Running" => server_status = Stopping(last.pre.server, None)
        /\ last.pre.tag # "Running" =>
              /\ server_status = last.pre
              /\ rcon_alive = last.rcon_alive
        /\ last.kills = {}

C13_Witness ==
    /\ HandledLog("ServerStopping")
    /\ last.pre.tag = "Stopping"
    /\ last.pre.rcon # None
    /\ server_status = last.pre

(* C14: StatusRequested, in whatever state and however often it is         *)
(* handled, leaves the state as it was and is answered with the text fixed *)
(* for that state.                                                         *)
StatusText(tag) ==
    IF tag = "Offline" THEN "Server is offline."
    ELSE IF tag = "Unknown" THEN "Server is probably offline, but worth a try."
    ELSE IF tag = "Starting" THEN "Server is starting, check back in a few mins."
    ELSE IF tag = "Running" THEN "Server is running."
    ELSE "Server is stopping."

C14_StatusIdempotent ==
    Handled("StatusQueryEvent") =>
        /\ last.sent = <<Note(StatusText(last.pre.tag))>>
        /\ server_status = last.pre
        /\ rcon_alive = last.rcon_alive
        /\ last.spawns = <<>>
        /\ last.kills = {}
        /\ pc = "poll"

C14_Witness ==
    /\ Handled("StatusQueryEvent")
    /\ last.pre.tag = "Stopping"
    /\ server_status = last.pre

(* C12: a ServerStarted log event handled in Starting moves the state to   *)
(* Running with the process handle Starting held and sends the startup     *)
(* notification carrying the seconds elapsed since the start; handled in   *)
(* any other state it sets the state to Unknown.                           *)
C12_ServerStarted ==
    HandledLog("ServerStarted") =>
        /\ last.pre.tag = "Starting" =>
              /\ server_status = Running(last.pre.server)
              /\ last.sent = <<[text |-> "Server is now running, startup",
                                secs |-> clock - last.pre.start_time,
                                entries |-> <<>>]>>
        /\ last.pre.tag # "Starting" => server_status = Unknown

C12_Witness ==
    /\ HandledLog("ServerStarted")
    /\ last.pre.tag = "Starting"
    /\ server_status = Running(last.pre.server)
    /\ last.sent[1].secs > 0

(* C18: a ServerError log event is reported to the operator only in        *)
(* Running or Stopping; two reports are never less than the error timeout  *)
(* apart; and the throttle timestamp moves, to the time of the report,     *)
(* exactly when a report is sent.                                          *)
SentErrorNote == \E i \in 1..Len(last.sent) : last.sent[i] = ErrorNote

C18_ErrorThrottle ==
    /\ SentErrorNote =>
          /\ HandledLog("ServerError")
          /\ last.pre.tag \in {"Running", "Stopping"}
          /\ last.sent = <<ErrorNote>>
          /\ last_error_reported = clock
    /\ Len(error_notes) = 2 => error_notes[2] - error_notes[1] >= ERROR_TIMEOUT
    /\ (last.step # "env" /\ ~SentErrorNote) =>
          last_error_reported = last.last_error_reported

C18_Witness ==
    /\ HandledLog("ServerError")
    /\ SentErrorNote
    /\ Len(error_notes) = 2
    /\ error_notes[2] - error_notes[1] = ERROR_TIMEOUT

(* C15: the control loop finding the command channel closed, or receiving  *)
(* the reconnect signal from it, goes on with a new producer on a new,     *)
(* empty channel and with the lifecycle state it had.                      *)
HandledReconnect == Handled("ReconnectEvent") \/ Handled("Err")

C15_CommandSourceReestablished ==
    HandledReconnect =>
        /\ pc = "poll"
        /\ discord_alive
        /\ from_discord = <<>>
        /\ server_status = last.pre

(* C16: no failure of a producer ends the control loop: after the loop     *)
(* handles what a failed command producer left in the channel (the         *)
(* reconnect signal, the error event, or the closed channel), it is still  *)
(* running, with a producer.                                               *)
HandledProducerFailure == HandledReconnect \/ Handled("ErrorEvent")

C16_ProducerErrorsRecovered ==
    HandledProducerFailure =>
        /\ pc # "exited"
        /\ discord_alive

(* C17: whenever the log-tailing producer of the held server process has   *)
(* ended and the control loop waits on the empty log channel, the recovery *)
(* of the log channel can take place.                                      *)
LogProducerDied ==
    /\ server_status.server # None
    /\ server_status.server \notin log_threads

C17_LogRecoveryReachable ==
    (pc = "select" /\ from_server_log = <<>> /\ LogProducerDied) =>
        ENABLED HandleLogClosed

(* C19: send_or_queue! called more than the message timeout after the      *)
(* last flush sends one message, the cached entries in the order they came *)
(* followed by the new entry, empties the cache and sets the time of the   *)
(* last flush to now; called earlier it appends the entry to the cache,    *)
(* sends nothing and leaves the time of the last flush alone.              *)
HandledRelay == last.step = "log" /\ last.ev.type \in RelayTypes

C19_ChatRelayBatcher ==
    HandledRelay =>
        LET entry == RelayEntry(last.ev) IN
        IF clock - last.last_chat_msg > MESSAGE_TIMEOUT
        THEN /\ last.sent = <<[text |-> "chat", secs |-> 0,
                               entries |-> last.chat_msg_cache \o <<entry>>]>>
             /\ chat_msg_cache = <<>>
             /\ last_chat_msg = clock
        ELSE /\ last.sent = <<>>
             /\ chat_msg_cache = last.chat_msg_cache \o <<entry>>
             /\ last_chat_msg = last.last_chat_msg

(* Two entries submitted within the interval and a third after it: one     *)
(* message with the three.                                                 *)
C19_Witness ==
    /\ HandledRelay
    /\ Len(last.chat_msg_cache) = 2
    /\ last.chat_msg_cache[1] # last.chat_msg_cache[2]
    /\ Len(last.sent) = 1
    /\ last.sent[1].entries = last.chat_msg_cache \o <<RelayEntry(last.ev)>>
    /\ chat_msg_cache = <<>>

(* C20: neither channel ever holds more than 5 events; while the control   *)
(* loop runs, a producer can send exactly while its channel holds fewer    *)
(* than 5; an event sent stays in the channel, in order, until the control *)
(* loop receives it; and the control loop, whatever the channels hold, can *)
(* always take its next step, which with an event waiting can be to        *)
(* receive it.                                                             *)
ChannelsBounded ==
    /\ Len(from_discord) <= CHANNEL_CAP
    /\ Len(from_server_log) <= CHANNEL_CAP

ProducerBlocksOnlyWhenFull ==
    pc # "exited" =>
        /\ ENABLED DiscordSendUpTo(Cmd("StatusQueryEvent"), BothChannels)
              <=> (Len(from_discord) < CHANNEL_CAP)
        /\ \A p \in log_threads :
              ENABLED LogEmitUpTo(p, LogEv("LagSpike"), BothChannels)
                  <=> (Len(from_server_log) < CHANNEL_CAP)

LoopNeverBlocked ==
    /\ pc = "poll" => ENABLED Poll
    /\ pc = "select" => ENABLED HandleTimeout
    /\ (pc = "select" /\ from_discord # <<>>) => ENABLED (HandleStart \/ HandleStatus)
    /\ (pc = "select" /\ from_server_log # <<>>) => ENABLED HandleLagSpike

Kept(q, r) ==
    \/ r = q
    \/ \E m \in OperatorCommands \cup {Cmd("ReconnectEvent"), Cmd("ErrorEvent")}
                  \cup {FromThread(p, ev) : p \in Pids, ev \in LogEvents} :
          r = Append(q, m)
    \/ pc = "select" /\ q # <<>> /\ r = Tail(q)

NothingDropped ==
    /\ Kept(from_discord, from_discord')
    /\ Kept(from_server_log, from_server_log')

C20_BoundedChannels ==
    /\ [](ChannelsBounded /\ ProducerBlocksOnlyWhenFull /\ LoopNeverBlocked)
    /\ [][NothingDropped]_vars

C20_Witness ==
    /\ Len(from_discord) = CHANNEL_CAP
    /\ Len(from_server_log) = CHANNEL_CAP
    /\ pc = "select"
    /\ ~ENABLED DiscordSendUpTo(Cmd("StatusQueryEvent"), BothChannels)
    /\ ENABLED HandleLagSpike

(* C26: at most one server process spawned by the supervisor is alive at   *)
(* any time, and none is alive while the state is Unknown or Offline.      *)
C26_SingleServer ==
    /\ Cardinality(server_alive) <= 1
    /\ server_status.tag \in {"Unknown", "Offline"} => server_alive = {}

(* C30: the state becomes Offline only in the poll block, and only from    *)
(* Running or Stopping holding a process handle whose process the poll     *)
(* finds exited.                                                           *)
BecomesOffline == server_status # Offline /\ server_status' = Offline

C30_OfflineOnlyByPoll ==
    [][BecomesOffline =>
          /\ pc = "poll"
          /\ server_status.tag \in {"Running", "Stopping"}
          /\ server_status.server # None
          /\ server_status.server \notin server_alive]_vars

C30_Witness ==
    /\ last.step = "poll"
    /\ last.pre.tag = "Stopping"
    /\ last.pre.server # None
    /\ ~last.srv_alive
    /\ server_status = Offline

(* C29: a ServerStarted or ServerStopping event sent by the log thread of  *)
(* a server other than the one whose handle the state holds leaves the     *)
(* lifecycle state as it was.                                              *)
HandledStaleLifecycleEvent ==
    /\ HandledLog("ServerStarted") \/ HandledLog("ServerStopping")
    /\ last.pre.server # None
    /\ last.ev.src # last.pre.server

C29_NoStaleLogEvents ==
    HandledStaleLifecycleEvent => server_status = last.pre

(* C21: while the control loop runs, a command waiting in the command      *)
(* channel leads to the loop receiving from that channel, and an event     *)
(* waiting in the log channel leads to the loop receiving from that one,   *)
(* whatever else is ready; the channels being first-in first-out and       *)
(* bounded, every event sent is received in the end.                       *)
C21_NoStarvation ==
    /\ (from_discord # <<>>) ~> (last.step = "discord" \/ pc = "exited")
    /\ (from_server_log # <<>>) ~> (last.step = "log" \/ pc = "exited")

C21_Witness ==
    /\ last.step = "discord"
    /\ Len(from_server_log) = CHANNEL_CAP
    /\ pc = "poll"

(* C27: a server process that exits while the state is Starting leads to   *)
(* the state leaving Starting.                                             *)
C27_StartingExitNoticed ==
    (server_status.tag = "Starting" /\ server_status.server \notin server_alive)
        ~> (server_status.tag # "Starting")

(* C28: Running or Stopping with no running process behind it, the held    *)
(* one having exited or Stopping holding none, leads to Offline or Unknown *)
(* with no event arriving.                                                 *)
C28_ExitNoticedByTick ==
    (/\ server_status.tag \in {"Running", "Stopping"}
     /\ server_status.server \notin server_alive)
        ~> (server_status.tag \in {"Offline", "Unknown"})

(* What the log thread sent for the line it read: the contents of the log  *)
(* channel, which nothing has received from yet.                           *)
SentForLine(events) ==
    \E p \in Pids :
        from_server_log = [i \in 1..Len(events) |-> FromThread(p, events[i])]

(* C22: scan_server_stop yields ServerStopping for the stop announcement   *)
(* its unit test uses: a line from the sender                              *)
(* net.minecraft.server.MinecraftServer with the message Stopping server.  *)
C22_StopAnnouncementMatched ==
    (/\ scanned.read
     /\ scanned.result.ok
     /\ scanned.result.sender_handle = <<"net.minecraft.server.MinecraftServer">>
     /\ scanned.result.message = <<"Stopping", " ", "server">>)
    => scan_server_stop(scanned.result.sender_handle, scanned.result.message)
          = Matched(LogEv("ServerStopping"))

(* C23: scan_line returns the result of the first of the four patterns     *)
(* that matches, in the order chat-bracket, console-say, double-tagged,    *)
(* bare: a chat-bracket line is chat from its user, a console-say line is  *)
(* chat exactly when its user is Server or Rcon, a double-tagged line and  *)
(* a bare line are never chat, the sender of a bare line is its source     *)
(* tag, and a line without the header is an error value.                   *)
C23_ScanLineRanked ==
    scanned.read =>
        LET Expected(sender_handle, is_chat_msg) ==
                ScannedLine(TimeStamp, ServerThread, <<line.level>>,
                            sender_handle, is_chat_msg, line.text)
        IN CASE line.form = "chat" -> scanned.result = Expected(line.user, TRUE)
             [] line.form = "console" ->
                    scanned.result =
                        Expected(line.user, line.user \in {<<"Server">>, <<"Rcon">>})
             [] line.form = "tagged" -> scanned.result = Expected(line.user, FALSE)
             [] line.form = "bare" -> scanned.result = Expected(line.tag, FALSE)
             [] line.form = "raw" -> scanned.result = Err

C23_Witness ==
    /\ scanned.read
    /\ line.form = "console"
    /\ line.user = <<"Rcon">>
    /\ scanned.result.ok
    /\ scanned.result.is_chat_msg

(* C24, as claimed: a line classified as chat whose sender and message     *)
(* match a literal template yields the domain event of that template.      *)
C24_MatchersIgnoreChat ==
    (/\ scanned.read
     /\ scanned.result.ok
     /\ scanned.result.is_chat_msg
     /\ MatcherChain(scanned.result.sender_handle, scanned.result.message).ok)
    => SentForLine(<<MatcherChain(scanned.result.sender_handle,
                                  scanned.result.message).ev>>)

(* C24, as the code has it: a line classified as chat yields its           *)
(* ChatMessage and nothing else, whether or not its sender and message     *)
(* match a literal template; a recognized line that is not chat and        *)
(* matches a template yields the domain event of the first template, in    *)
(* the order of the chain, that it matches.                                *)
C24_MatchersSkipChat ==
    (scanned.read /\ scanned.result.ok) =>
        LET r == scanned.result
            m == MatcherChain(r.sender_handle, r.message)
        IN IF r.is_chat_msg
           THEN SentForLine(<<[type |-> "ChatMessage", name |-> r.sender_handle,
                               message |-> r.message]>>)
           ELSE m.ok => SentForLine(<<m.ev>>)

C24_Witness ==
    /\ scanned.read
    /\ line.form = "chat"
    /\ scanned.result.ok
    /\ scan_server_start(scanned.result.sender_handle, scanned.result.message).ok
    /\ \E p \in Pids : \E i \in 1..Len(from_server_log) :
          /\ from_server_log[i].src = p
          /\ from_server_log[i].type = "ChatMessage"

(* C25: the level tokens INFO, WARN, ERROR, FATAL, DEBUG, TRACE map to the *)
(* severities info, warn, error, error, debug, trace and any other token   *)
(* to trace; a recognized line that is not chat and matches no literal     *)
(* matcher yields a ServerError exactly when its token is ERROR or FATAL,  *)
(* and nothing otherwise.                                                  *)
C25_ErrorSeverity ==
    (/\ scanned.read
     /\ scanned.result.ok
     /\ ~scanned.result.is_chat_msg
     /\ ~MatcherChain(scanned.result.sender_handle, scanned.result.message).ok)
    => /\ LevelOf(line.level) =
            (CASE line.level = "INFO" -> "Info"
               [] line.level = "WARN" -> "Warn"
               [] line.level \in {"ERROR", "FATAL"} -> "Error"
               [] line.level = "DEBUG" -> "Debug"
               [] OTHER -> "Trace")
       /\ IF line.level \in {"ERROR", "FATAL"}
          THEN SentForLine(<<LogEv("ServerError")>>)
          ELSE SentForLine(<<>>)

C25_Witness ==
    /\ scanned.read
    /\ line.form = "bare"
    /\ line.level = "FATAL"
    /\ SentForLine(<<LogEv("ServerError")>>)

(* C31: the entries passed to send_or_queue!, in the order of the calls,   *)
(* are the entries of the messages sent so far, in the order sent,         *)
(* followed by the entries in the cache: each entry is in at most one      *)
(* message, the messages keep the order of submission, and an entry not    *)
(* yet sent is in the cache.  Right after a flush the cache is empty.      *)
C31_RelayOnceInOrder ==
    relay_log.on =>
        /\ relay_log.submitted = relay_log.relayed \o chat_msg_cache
        /\ (HandledRelay /\ last.sent # <<>>) => chat_msg_cache = <<>>

(* A second message, of two different entries, after an earlier one. *)
C31_Witness ==
    /\ relay_log.on
    /\ HandledRelay
    /\ Len(last.sent) = 1
    /\ Len(last.sent[1].entries) = 2
    /\ last.sent[1].entries[1] # last.sent[1].entries[2]
    /\ Len(relay_log.relayed) > 2
    /\ relay_log.submitted = relay_log.relayed

(* C32: the lifecycle state changes only in the poll block and in the arms *)
(* of the start, stop, kill and cancel commands, of the ServerStarted and  *)
(* ServerStopping log events and of the closed log channel; the arms of    *)
(* the backup, op, shutdown, help, unknown and empty commands, of the      *)
(* ServerError, LagSpike, BackupStarted, BackupFinished, UserLogin,        *)
(* UserLogout and ChatMessage log events and the timer tick leave the      *)
(* state, the handles it holds and their processes as they were.           *)
LifecycleStep(obs) ==
    \/ obs.step = "poll"
    \/ /\ obs.step = "discord"
       /\ obs.ev.cmd \in {"StartServerEvent", "StopServerEvent", "KillServerEvent",
                           "CancelShutdownEvent"}
    \/ /\ obs.step = "log"
       /\ obs.ev.type \in {"ServerStarted", "ServerStopping", "Err"}

FrameStep(obs) ==
    \/ obs.step = "tick"
    \/ /\ obs.step = "discord"
       /\ obs.ev.cmd \in {"BackupEvent", "OpCommandEvent", "ShutdownServerEvent",
                           "HelpEvent", "UnknownCommand", "NoCommand"}
    \/ /\ obs.step = "log"
       /\ obs.ev.type \in RelayTypes \cup {"ServerError", "LagSpike"}

C32_LifecycleFrame ==
    [][/\ server_status' # server_status => LifecycleStep(last')
       /\ FrameStep(last') =>
             /\ server_status' = server_status
             /\ server_alive' = server_alive
             /\ rcon_alive' = rcon_alive
             /\ last'.kills = {}]_vars

(* A backup started in Running: the state stays Running with its handle. *)
C32_Witness ==
    /\ Handled("BackupEvent")
    /\ last.pre.tag = "Running"
    /\ Len(last.spawns) = 1
    /\ server_status = last.pre

(* C33: when the control loop replaces the command channel, the channel it *)
(* drops holds nothing but the reconnect signal being handled, so no       *)
(* command is discarded; and at no time is more than one discord_thread    *)
(* running.                                                                *)
ChannelReplaced ==
    /\ last'.step = "discord"
    /\ last'.ev.cmd \in {"ReconnectEvent", "Err"}
    /\ pc' # "exited"

C34_CancelOnlyWhenKilled ==
    (/\ Handled("CancelShutdownEvent")
     /\ last.pre.tag = "Stopping"
     /\ server_status.tag = "Running")
    => /\ last.rcon_alive
       /\ last.sent = <<Note("Shutdown cancelled")>>

====
